---- MODULE Spec2Model ----
(***************************************************************************)
(* Buying_Pool_2: five Streamlit variants (app, app2, app4, app5, app7) of *)
(* a Canadian home-affordability calculator.  Each variant is a script     *)
(* that Streamlit re-runs from top to bottom whenever a widget changes.    *)
(*                                                                         *)
(* Numbers.  The scripts compute with IEEE doubles.  Here money is kept in *)
(* whole cents and every other real (rates, factors, probabilities,        *)
(* logarithms) is a fixed-point integer holding floor(v * ONE).  Products  *)
(* and quotients are exact floors computed limb by limb so that no         *)
(* intermediate exceeds 32 bits.  Display formatting (f-strings) is not    *)
(* modelled: outputs are the numbers handed to the widgets.                *)
(***************************************************************************)
EXTENDS Integers, Sequences, FiniteSets, TLC

\* ------------------------------------------------------------------------
\* Fixed-point arithmetic
\* ------------------------------------------------------------------------
LIMB == 10 * 10 * 10
ONE == LIMB * LIMB
CENTS == 10 * 10
Dollars(d) == d * CENTS

Abs(a) == IF a < 0 THEN -a ELSE a
Max(a, b) == IF a >= b THEN a ELSE b
Min(a, b) == IF a <= b THEN a ELSE b

\* The arithmetic below is written as functions on the integers, each value
\* computed as the corresponding float operation computes it.

\* floor(a * b / ONE) for a, b >= 0
MulNat[a \in Int, b \in Int] ==
    LET ah == a \div LIMB
        al == a % LIMB
        bh == b \div LIMB
        bl == b % LIMB
    IN  ah * bh + (ah * bl + al * bh + (al * bl) \div LIMB) \div LIMB

\* a * b / ONE, truncated toward zero (the sign is carried separately)
FMul[a \in Int, b \in Int] ==
    IF (a < 0) = (b < 0) THEN MulNat[Abs(a), Abs(b)]
    ELSE -MulNat[Abs(a), Abs(b)]

\* floor(r * 10^k / b) digit by digit, 0 <= r < b
DivDigits[r \in Int, b \in Int, k \in Int] ==
    IF k = 0 THEN 0
    ELSE LET d == (r * 10) \div b
             rr == (r * 10) % b
         IN  d * (IF k = 1 THEN 1 ELSE IF k = 2 THEN 10 ELSE IF k = 3 THEN 100
                  ELSE IF k = 4 THEN 1000 ELSE IF k = 5 THEN 10000 ELSE 100000)
             + DivDigits[rr, b, k - 1]

\* floor(a * ONE / b) for a >= 0, b > 0
DivNat[a \in Int, b \in Int] == (a \div b) * ONE + DivDigits[a % b, b, 6]

\* a / b as fixed point (a, b both money or both fixed point), b # 0
FDiv[a \in Int, b \in Int] ==
    IF (a < 0) = (b < 0) THEN DivNat[Abs(a), Abs(b)]
    ELSE -DivNat[Abs(a), Abs(b)]

\* base ** n by repeated squaring (float ** with an int exponent)
Sq[a \in Int] == FMul[a, a]

FPow[base \in Int, n \in Int] ==
    IF n = 0 THEN ONE
    ELSE IF n % 2 = 0 THEN Sq[FPow[base, n \div 2]]
    ELSE FMul[Sq[FPow[base, n \div 2]], base]

LN2 == 693147

\* exp(-f) for 0 <= f < LN2 by its Taylor series, term k = term(k-1) * f / k
ExpSeries[f \in Int, term \in Int, k \in Int] ==
    IF term = 0 THEN 0
    ELSE term - ExpSeries[f, FMul[term, f] \div k, k + 1]

Halve[v \in Int, k \in Int] == IF k = 0 THEN v ELSE Halve[v \div 2, k - 1]

\* np.exp(v) for v <= 0: exp(-w) = 2^-k * exp(-f), w = k ln2 + f
FExpNeg[v \in Int] ==
    LET w == -v
        k == w \div LN2
        f == w % LN2
    IN  IF k > 30 THEN 0 ELSE Halve[ExpSeries[f, ONE, 1], k]

\* np.tanh(y) = sign(y) * (1 - e^(-2|y|)) / (1 + e^(-2|y|))
TanhOf[y \in Int, t \in Int] ==
    IF y < 0 THEN -FDiv[ONE - t, ONE + t] ELSE FDiv[ONE - t, ONE + t]

FTanh[y \in Int] == TanhOf[y, FExpNeg[-2 * Abs(y)]]

\* atanh(t) = t + t^3/3 + t^5/5 + ..., 0 <= t <= 1/3; pw is t^k, t2 is t^2
AtanhSeries[t2 \in Int, pw \in Int, k \in Int] ==
    IF pw = 0 THEN 0
    ELSE pw \div k + AtanhSeries[t2, FMul[pw, t2], k + 2]

Log2Floor[x \in Int] == IF x < 2 THEN 0 ELSE 1 + Log2Floor[x \div 2]

Pow2[e \in Int] == IF e = 0 THEN 1 ELSE 2 * Pow2[e - 1]

LN_CENTS == 4605170

\* np.log(x) for a money amount of x >= 1 cents: x = m * 2^e, 1 <= m < 2,
\* ln x = e ln2 + 2 atanh((m - 1) / (m + 1)), less ln 100 to count in dollars
Atanh[t \in Int] == AtanhSeries[FMul[t, t], t, 1]

LnMantissa[m \in Int] == 2 * Atanh[FDiv[m - ONE, m + ONE]]

LnParts[x \in Int, e \in Int] == e * LN2 + LnMantissa[FDiv[x, Pow2[e]]]

FLn[x \in Int] == LnParts[x, Log2Floor[x]] - LN_CENTS

\* ------------------------------------------------------------------------
\* Configuration shared by the variants
\* ------------------------------------------------------------------------
Variants == {"app", "app2", "app4", "app5", "app7"}
SimpleVariants == {"app", "app2", "app4"}      \* fixed regional down-rate, 28% GDS
StressVariants == {"app5", "app7"}             \* tiered down payment, stress test
DualVariants == {"app4", "app5", "app7"}       \* two properties side by side
HouseholdVariants == {"app2", "app4", "app5", "app7"}

RegionNames == {"National", "Ontario", "BC", "Alberta", "Quebec"}

\* REGIONS of app.py, app2.py, app4.py (rates and down-rates in fixed point)
REGIONS ==
    [r \in RegionNames |->
        CASE r = "National" -> [down |-> 50000, rate |-> 45000, pop |-> 20000000]
          [] r = "Ontario"  -> [down |-> 50000, rate |-> 47000, pop |-> 15000000]
          [] r = "BC"       -> [down |-> 50000, rate |-> 49000, pop |-> 5300000]
          [] r = "Alberta"  -> [down |-> 50000, rate |-> 43000, pop |-> 4500000]
          [] r = "Quebec"   -> [down |-> 30000, rate |-> 44000, pop |-> 9000000]]

\* REGIONS of app5.py, app7.py: no "down" key
REGIONS_CMHC ==
    [r \in RegionNames |-> [rate |-> REGIONS[r].rate, pop |-> REGIONS[r].pop]]

MU == 10450000
SIGMA == 950000
SQRT_2 == 1414213
SQRT_2_3 == 816496
SQRT_2_PI == 797884

\* ------------------------------------------------------------------------
\* Income distribution
\* ------------------------------------------------------------------------
\* app.py lognorm_cdf(x, s, scale): no guard on x.  np.log(0.0) is -inf, so
\* tanh gives -1 and exp gives 0; np.log of a negative number is nan.
CdfAppOfZ[z \in Int] ==
    (ONE + FTanh[FMul[SQRT_2, z] \div 2]
         + FMul[SQRT_2_PI, FExpNeg[-(FMul[z, z] \div 2)]]) \div 2

lognorm_cdf_app(x) ==
    IF x < 0 THEN [nan |-> TRUE, v |-> 0]
    ELSE IF x = 0 THEN [nan |-> FALSE, v |-> (ONE + (-ONE) + 0) \div 2]
    ELSE [nan |-> FALSE, v |-> CdfAppOfZ[FDiv[FLn[x] - MU, SIGMA]]]

\* app2.py, app4.py, app5.py, app7.py lognorm_cdf(x, mu, sigma)
lognorm_cdf(x) ==
    IF x <= 0 THEN 0
    ELSE (ONE + FTanh[FMul[SQRT_2_3, FDiv[FLn[x] - MU, SIGMA]]]) \div 2

\* ------------------------------------------------------------------------
\* Mortgage qualification
\* ------------------------------------------------------------------------
GDS_SIMPLE == 280000
GDS_STRESS == 390000
AMORT_STANDARD == 25
AMORT_LONG == 30
TIER1 == Dollars(500000)
TIER2 == Dollars(1500000)
TIER1_RATE == 50000
TIER2_RATE == 100000
TIER3_RATE == 200000
STRESS_FLOOR == 52500
STRESS_BUFFER == 20000

\* loan * (r * (1 + r)**n) / ((1 + r)**n - 1), pw being (1 + r)**n; a zero
\* denominator is Python's ZeroDivisionError
AnnuityOf[loan \in Int, monthly_rate \in Int, pw \in Int] ==
    IF pw - ONE = 0 THEN [error |-> "ZeroDivisionError", v |-> 0]
    ELSE [error |-> "none", v |-> FDiv[FMul[loan, FMul[monthly_rate, pw]], pw - ONE]]

Annuity[loan \in Int, monthly_rate \in Int, n_payments \in Int] ==
    AnnuityOf[loan, monthly_rate, FPow[ONE + monthly_rate, n_payments]]

\* The locals of a qualification call at its return (or at its raise):
\* income_needed = monthly_payment * 12 / gds
Qualified(monthly_payment, gds, down_payment, loan, monthly_rate, n_payments, stress_rate, amortization_years) ==
    [error |-> monthly_payment.error,
     income_needed |-> IF monthly_payment.error = "none"
                       THEN FDiv[monthly_payment.v * 12, gds] ELSE 0,
     down_payment |-> down_payment, loan |-> loan,
     monthly_rate |-> monthly_rate, n_payments |-> n_payments,
     monthly_payment |-> monthly_payment.v,
     stress_rate |-> stress_rate, amortization_years |-> amortization_years]

\* calc_affordable adding the down payment to the price where the code
\* subtracts it: loan = price + down_payment
calc_affordable_app_plus(price, down_pct, rate) ==
    LET down_payment == FMul[price, down_pct]
        loan == price + down_payment
        monthly_rate == rate \div 12
        n_payments == AMORT_STANDARD * 12
    IN  Qualified(Annuity[loan, monthly_rate, n_payments], GDS_SIMPLE,
                  down_payment, loan, monthly_rate, n_payments, rate, AMORT_STANDARD)

\* app.py calc_affordable(price, down_pct, rate)
calc_affordable_app(price, down_pct, rate) ==
    LET down_payment == FMul[price, down_pct]
        loan == price - down_payment
        monthly_rate == rate \div 12
        n_payments == AMORT_STANDARD * 12
    IN  Qualified(Annuity[loan, monthly_rate, n_payments], GDS_SIMPLE,
                  down_payment, loan, monthly_rate, n_payments, rate, AMORT_STANDARD)

ClampIncome(r) == [r EXCEPT !.income_needed = Max(0, r.income_needed)]

\* app2.py, app4.py calc_affordable: income_needed = max(0, ...)
calc_affordable(price, down_pct, rate) ==
    ClampIncome(calc_affordable_app(price, down_pct, rate))

\* calculate_down_payment with the operands of the middle band's subtraction
\* exchanged: above_500k = (500000 - price) * 0.10
calculate_down_payment_swapped(price) ==
    IF price <= TIER1 THEN FMul[price, TIER1_RATE]
    ELSE IF price <= TIER2
         THEN LET first_500k == FMul[TIER1, TIER1_RATE]
                  above_500k == FMul[TIER1 - price, TIER2_RATE]
              IN  first_500k + above_500k
         ELSE FMul[price, TIER3_RATE]

\* calculate_down_payment leaving the first band out of the middle tier:
\* return above_500k
calculate_down_payment_no_first_band(price) ==
    IF price <= TIER1 THEN FMul[price, TIER1_RATE]
    ELSE IF price <= TIER2
         THEN LET above_500k == FMul[price - TIER1, TIER2_RATE]
              IN  above_500k
         ELSE FMul[price, TIER3_RATE]

\* app5.py, app7.py calculate_down_payment(price)
calculate_down_payment(price) ==
    IF price <= TIER1 THEN FMul[price, TIER1_RATE]
    ELSE IF price <= TIER2
         THEN LET first_500k == FMul[TIER1, TIER1_RATE]
                  above_500k == FMul[price - TIER1, TIER2_RATE]
              IN  first_500k + above_500k
         ELSE FMul[price, TIER3_RATE]

\* calc_stress_test_payment taking min where the code takes max:
\* stress_rate = min(0.0525, contract_rate + 0.02)
calc_stress_test_payment_min(price, contract_rate, first_time_buyer, new_construction) ==
    LET down_payment == calculate_down_payment(price)
        loan == price - down_payment
        stress_rate == Min(STRESS_FLOOR, contract_rate + STRESS_BUFFER)
        amortization_years == IF first_time_buyer \/ new_construction
                              THEN AMORT_LONG ELSE AMORT_STANDARD
        n_payments == amortization_years * 12
        monthly_rate == stress_rate \div 12
    IN  Qualified(Annuity[loan, monthly_rate, n_payments], GDS_STRESS,
                  down_payment, loan, monthly_rate, n_payments,
                  stress_rate, amortization_years)

\* calc_stress_test_payment choosing the term from first_time_buyer alone,
\* new_construction being ignored
calc_stress_test_payment_first_time_only(price, contract_rate, first_time_buyer, new_construction) ==
    LET down_payment == calculate_down_payment(price)
        loan == price - down_payment
        stress_rate == Max(STRESS_FLOOR, contract_rate + STRESS_BUFFER)
        amortization_years == IF first_time_buyer
                              THEN AMORT_LONG ELSE AMORT_STANDARD
        n_payments == amortization_years * 12
        monthly_rate == stress_rate \div 12
    IN  Qualified(Annuity[loan, monthly_rate, n_payments], GDS_STRESS,
                  down_payment, loan, monthly_rate, n_payments,
                  stress_rate, amortization_years)

\* app5.py, app7.py calc_stress_test_payment
calc_stress_test_payment(price, contract_rate, first_time_buyer, new_construction) ==
    LET down_payment == calculate_down_payment(price)
        loan == price - down_payment
        stress_rate == Max(STRESS_FLOOR, contract_rate + STRESS_BUFFER)
        amortization_years == IF first_time_buyer \/ new_construction
                              THEN AMORT_LONG ELSE AMORT_STANDARD
        n_payments == amortization_years * 12
        monthly_rate == stress_rate \div 12
    IN  Qualified(Annuity[loan, monthly_rate, n_payments], GDS_STRESS,
                  down_payment, loan, monthly_rate, n_payments,
                  stress_rate, amortization_years)

\* ------------------------------------------------------------------------
\* The scripts: widgets, one top-to-bottom run, and the rerun on each change
\* ------------------------------------------------------------------------
PRICE_MIN == Dollars(100000)
PRICE_MAX == Dollars(3000000)
PRICE1_DEFAULT == Dollars(800000)
PRICE2_DEFAULT == Dollars(1000000)
MATERIALITY == Dollars(50000)
COUPLE_FACTOR == 750000
POP_MULT_SINGLE == 400000
POP_MULT_COUPLE == 600000
COUPLE_FACTOR_APP2 == 650000
COUPLE_LOOKUP_APP2 == 1400000
POP_MULT_COUPLE_APP2 == 600000
HUNDRED == 100

\* Prices the user enters in st.number_input(100000, 3000000, ...): an even
\* grid over the accepted range and the prices around the tier thresholds
GridCells == 4
PriceGrid == {PRICE_MIN + i * ((PRICE_MAX - PRICE_MIN) \div GridCells) : i \in 0..GridCells}
PriceLandmarks == {Dollars(d) : d \in {500000, 800000, 1000000, 1350000,
                                      1500000, 1525000, 1550000}}
Prices == PriceGrid \cup PriceLandmarks

Households == {"single", "couple"}

VARIABLES variant, price1, price2, region, household_type, first_time, new_constr,
          out, call

vars == <<variant, price1, price2, region, household_type, first_time, new_constr,
          out, call>>
widgets == <<price1, price2, region, household_type, first_time, new_constr>>

\* One property's column of metrics: the locals of the qualification call q
\* and the buyer-pool numbers derived from it
Column(q, income_needed, prob, people) ==
    [income_single |-> q.income_needed, income_needed |-> income_needed,
     down_payment |-> q.down_payment, loan |-> q.loan,
     stress_rate |-> q.stress_rate, amortization_years |-> q.amortization_years,
     n_payments |-> q.n_payments, monthly_payment |-> q.monthly_payment,
     prob |-> prob, people |-> people, pct |-> prob * HUNDRED]

\* app.py lines 51-53: prob, people, pct from income_needed
MetricsApp(q, prob, pop) == Column(q, q.income_needed, prob, FMul[pop, prob])

\* app.py lines 47-53: the selected region's metrics
ColumnApp(p, reg) ==
    MetricsApp(calc_affordable_app(p, REGIONS[reg].down, REGIONS[reg].rate),
               ONE - lognorm_cdf_app(
                   calc_affordable_app(p, REGIONS[reg].down, REGIONS[reg].rate).income_needed).v,
               REGIONS[reg].pop)

RowCellsApp(inc, pr, pop) ==
    [min_income |-> inc, can_afford |-> FMul[pop, pr], pct_pop |-> pr * HUNDRED]

RowIncomeApp(inc, pop) == RowCellsApp(inc, ONE - lognorm_cdf_app(inc).v, pop)

\* app.py lines 65-68: one row of the comparison table
RowApp(p, r) ==
    RowIncomeApp(calc_affordable_app(p, REGIONS[r].down, REGIONS[r].rate).income_needed,
                 REGIONS[r].pop)

\* app2.py lines 64-76: the branch on household_type
MetricsApp2(q, income_needed, prob, region_pop, hh) ==
    Column(q, income_needed, prob,
           IF hh = "single" THEN FMul[region_pop, prob]
           ELSE FMul[FMul[region_pop, prob], POP_MULT_COUPLE_APP2])

SurvivalApp2(income_needed, hh) ==
    IF hh = "single"
    THEN Max(0, ONE - lognorm_cdf(income_needed))
    ELSE Max(0, ONE - lognorm_cdf(FMul[income_needed, COUPLE_LOOKUP_APP2]))

IncomeApp2(q, income_needed, region_pop, hh) ==
    MetricsApp2(q, income_needed, SurvivalApp2(income_needed, hh), region_pop, hh)

\* app2.py lines 53-76: income_needed_couple = income_needed_single * 0.65
ColumnApp2(p, reg, hh) ==
    IncomeApp2(calc_affordable(p, REGIONS[reg].down, REGIONS[reg].rate),
               IF hh = "single"
               THEN calc_affordable(p, REGIONS[reg].down, REGIONS[reg].rate).income_needed
               ELSE FMul[calc_affordable(p, REGIONS[reg].down, REGIONS[reg].rate).income_needed,
                         COUPLE_FACTOR_APP2],
               REGIONS[reg].pop, hh)

RowCellsApp2(pr, pop, hh) ==
    [can_afford |-> IF hh = "couple" THEN FMul[FMul[pop, pr], POP_MULT_COUPLE_APP2]
                    ELSE FMul[pop, pr],
     pct_pop |-> pr * HUNDRED]

RowIncomeApp2(inc_single, pop, hh) ==
    RowCellsApp2(IF hh = "single"
                 THEN Max(0, ONE - lognorm_cdf(inc_single))
                 ELSE Max(0, ONE - lognorm_cdf(FMul[FMul[inc_single, COUPLE_FACTOR_APP2],
                                                    COUPLE_LOOKUP_APP2])),
                 pop, hh)

\* app2.py lines 86-97: one row; its "Min Income" cell is filled by Run from
\* income_needed, the variable left by the selected region's branch
RowApp2(p, r, hh) ==
    RowIncomeApp2(calc_affordable(p, REGIONS[r].down, REGIONS[r].rate).income_needed,
                  REGIONS[r].pop, hh)

\* The household branch of app4.py 71-80, app5.py 94-101, app7.py 95-102
HouseholdIncome(income_single, hh) ==
    IF hh = "single" THEN income_single ELSE FMul[income_single, COUPLE_FACTOR]

PopMult(hh) == IF hh = "single" THEN POP_MULT_SINGLE ELSE POP_MULT_COUPLE

\* prob = max(0, 1 - lognorm_cdf(income))
Survival(income) == Max(0, ONE - lognorm_cdf(income))

\* people = prob * region_pop * pop_mult
People(prob, pop, pop_mult) == FMul[FMul[pop, prob], pop_mult]

MetricsDual(q, income_needed, prob, region_pop, pop_mult) ==
    Column(q, income_needed, prob, People(prob, region_pop, pop_mult))

IncomeDual(q, income_needed, region_pop, pop_mult) ==
    MetricsDual(q, income_needed, Survival(income_needed), region_pop, pop_mult)

\* app4.py 68-87, app5.py 91-106, app7.py 92-107 for one of the two prices,
\* q being that price's qualification
ColumnDual(q, region_pop, hh) ==
    IncomeDual(q, HouseholdIncome(q.income_needed, hh), region_pop, PopMult(hh))

ColumnApp4(p, reg, hh) ==
    ColumnDual(calc_affordable(p, REGIONS[reg].down, REGIONS[reg].rate),
               REGIONS[reg].pop, hh)

ColumnStress(p, reg, hh, ft, nc) ==
    ColumnDual(calc_stress_test_payment(p, REGIONS_CMHC[reg].rate, ft, nc),
               REGIONS_CMHC[reg].pop, hh)

\* app4.py 129-132, app5.py 146-149, app7.py 160-163 for one of the two prices:
\* i_adj = i * (0.75 if couple else 1.0); p = max(0, 1 - cdf(i_adj)) * pop * pop_mult
RowDual(i, pop, hh) ==
    FMul[FMul[pop, Max(0, ONE - lognorm_cdf(
                              FMul[i, IF hh = "couple" THEN COUPLE_FACTOR ELSE ONE]))],
         PopMult(hh)]

RowApp4(p, r, hh) ==
    RowDual(calc_affordable(p, REGIONS[r].down, REGIONS[r].rate).income_needed,
            REGIONS[r].pop, hh)

RowStress(p, r, hh, ft, nc) ==
    RowDual(calc_stress_test_payment(p, REGIONS_CMHC[r].rate, ft, nc).income_needed,
            REGIONS_CMHC[r].pop, hh)

\* The scripts are pure in their widget values: the column and the table row
\* of every (variant, price, region, profile) are tabulated once
ColumnOf ==
    [v \in Variants, p \in Prices, r \in RegionNames, hh \in Households,
     ft \in BOOLEAN, nc \in BOOLEAN |->
        CASE v = "app"  -> ColumnApp(p, r)
          [] v = "app2" -> ColumnApp2(p, r, hh)
          [] v = "app4" -> ColumnApp4(p, r, hh)
          [] v \in StressVariants -> ColumnStress(p, r, hh, ft, nc)]

RowOf ==
    [v \in Variants, p \in Prices, r \in RegionNames, hh \in Households,
     ft \in BOOLEAN, nc \in BOOLEAN |->
        CASE v = "app"  -> RowApp(p, r)
          [] v = "app2" -> RowApp2(p, r, hh)
          [] v = "app4" -> RowApp4(p, r, hh)
          [] v \in StressVariants -> RowStress(p, r, hh, ft, nc)]

\* app4.py lines 108-116: the else branch names Property 2 whenever buyer_diff <= 0
Winner4(p1, p2, buyer_diff) ==
    IF Abs(p1 - p2) > MATERIALITY
    THEN IF buyer_diff > 0 THEN "Property 1" ELSE "Property 2"
    ELSE "none"

\* app5.py lines 129-133
Winner5(p1, p2, people1, people2) ==
    IF Abs(p1 - p2) > MATERIALITY
    THEN IF people1 > people2 THEN "Property 1" ELSE "Property 2"
    ELSE "none"

\* The winner block of app7.py comparing with >= where the code compares
\* with >: if abs(price1 - price2) >= 50000
Winner7_at_least(p1, p2, buyer_difference) ==
    IF Abs(p1 - p2) >= MATERIALITY
    THEN IF buyer_difference > 0 THEN "Property 1"
         ELSE IF buyer_difference < 0 THEN "Property 2"
         ELSE "Tie"
    ELSE "none"

\* app7.py lines 136-144
Winner7(p1, p2, buyer_difference) ==
    IF Abs(p1 - p2) > MATERIALITY
    THEN IF buyer_difference > 0 THEN "Property 1"
         ELSE IF buyer_difference < 0 THEN "Property 2"
         ELSE "Tie"
    ELSE "none"

\* The outputs of one run, c1 and c2 being the two columns
Outputs(v, p1, p2, c1, c2, table) ==
    IF v \in DualVariants
    THEN [props |-> <<c1, c2>>, buyer_difference |-> c1.people - c2.people,
          winner |-> CASE v = "app4" -> Winner4(p1, p2, c1.people - c2.people)
                       [] v = "app5" -> Winner5(p1, p2, c1.people, c2.people)
                       [] v = "app7" -> Winner7(p1, p2, c1.people - c2.people),
          table |-> table]
    ELSE [props |-> <<c1>>, buyer_difference |-> 0, winner |-> "none", table |-> table]

\* The regional table: app.py 65-68, app2.py 86-97 (whose first cell is the
\* selected region's income_needed), app4.py 126-133, app5.py 143-150,
\* app7.py 157-164
Table(v, p1, p2, hh, ft, nc, income_needed) ==
    [r \in RegionNames |->
        CASE v = "app" -> RowOf[v, p1, r, hh, ft, nc]
          [] v = "app2" -> [min_income |-> income_needed] @@ RowOf[v, p1, r, hh, ft, nc]
          [] v \in DualVariants -> [p1 |-> RowOf[v, p1, r, hh, ft, nc],
                                    p2 |-> RowOf[v, p2, r, hh, ft, nc]]]

\* One run of the script of variant v over the current widget values
Run(v, p1, p2, reg, hh, ft, nc) ==
    Outputs(v, p1, p2, ColumnOf[v, p1, reg, hh, ft, nc], ColumnOf[v, p2, reg, hh, ft, nc],
            Table(v, p1, p2, hh, ft, nc, ColumnOf[v, p1, reg, hh, ft, nc].income_needed))

NoCall == [fn |-> "none"]

\* First run: every widget at its default
Init ==
    /\ variant \in Variants
    /\ price1 = PRICE1_DEFAULT
    /\ price2 = PRICE2_DEFAULT
    /\ region = "National"
    /\ household_type = "single"
    /\ first_time = TRUE
    /\ new_constr = FALSE
    /\ out = Run(variant, price1, price2, region, household_type, first_time, new_constr)
    /\ call = NoCall

\* Streamlit re-runs the script over the new widget values
Rerun ==
    /\ out' = Run(variant, price1', price2', region', household_type', first_time', new_constr')
    /\ UNCHANGED <<variant, call>>

SetPrice1 ==
    /\ \E p \in Prices \ {price1} :
        /\ price1' = p
        /\ UNCHANGED <<price2, region, household_type, first_time, new_constr>>
    /\ Rerun

SetPrice2 ==
    /\ variant \in DualVariants
    /\ \E p \in Prices \ {price2} :
        /\ price2' = p
        /\ UNCHANGED <<price1, region, household_type, first_time, new_constr>>
    /\ Rerun

SetRegion ==
    /\ \E r \in RegionNames \ {region} :
        /\ region' = r
        /\ UNCHANGED <<price1, price2, household_type, first_time, new_constr>>
    /\ Rerun

SetHousehold ==
    /\ variant \in HouseholdVariants
    /\ \E h \in Households \ {household_type} :
        /\ household_type' = h
        /\ UNCHANGED <<price1, price2, region, first_time, new_constr>>
    /\ Rerun

ToggleFirstTime ==
    /\ variant \in StressVariants
    /\ first_time' = ~first_time
    /\ UNCHANGED <<price1, price2, region, household_type, new_constr>>
    /\ Rerun

ToggleNewConstr ==
    /\ variant \in StressVariants
    /\ new_constr' = ~new_constr
    /\ UNCHANGED <<price1, price2, region, household_type, first_time>>
    /\ Rerun

\* A widget changes and the script runs again
Next ==
    \/ SetPrice1
    \/ SetPrice2
    \/ SetRegion
    \/ SetHousehold
    \/ ToggleFirstTime
    \/ ToggleNewConstr

Spec == Init /\ [][Next]_vars

\* ------------------------------------------------------------------------
\* The core functions called directly, outside the widgets' ranges
\* ------------------------------------------------------------------------
\* Arguments a caller of the bare functions can pass: the widget prices, a
\* cent either side of nothing, a cent and a dollar past each tier threshold,
\* a negative price
CorePrices == Prices \cup {Dollars(-100000), 0, 1, TIER1 + 1, TIER2 + 1,
                            TIER1 + CENTS, TIER2 + CENTS}
CoreRates == {REGIONS[r].rate : r \in RegionNames} \cup {0, 10000}
CoreDownPcts == {REGIONS[r].down : r \in RegionNames}
CoreIncomes == {Dollars(d) : d \in {-50000, 0, 10000, 34544, 100000, 181047, 400000}}
                   \cup {-1, 1}
CoreRegionKeys == RegionNames \cup {"Yukon"}

\* REGIONS[region]: a key outside the dict raises KeyError
RegionLookup(v, key) ==
    IF key \in RegionNames
    THEN [error |-> "none",
          data |-> IF v \in StressVariants THEN REGIONS_CMHC[key]
                   ELSE [rate |-> REGIONS[key].rate, pop |-> REGIONS[key].pop]]
    ELSE [error |-> "KeyError", data |-> [rate |-> 0, pop |-> 0]]

CoreResult(v, fn, x, p, d, rate, ft, nc, key) ==
    CASE fn = "lognorm_cdf" ->
           [fn |-> fn, x |-> x,
            ret |-> IF v = "app" THEN lognorm_cdf_app(x)
                    ELSE [nan |-> FALSE, v |-> lognorm_cdf(x)]]
      [] fn = "calc_affordable" ->
           [fn |-> fn, price |-> p, down_pct |-> d, rate |-> rate,
            ret |-> IF v = "app" THEN calc_affordable_app(p, d, rate)
                    ELSE calc_affordable(p, d, rate)]
      [] fn = "calculate_down_payment" ->
           [fn |-> fn, price |-> p, ret |-> calculate_down_payment(p)]
      [] fn = "calc_stress_test_payment" ->
           [fn |-> fn, price |-> p, rate |-> rate,
            first_time_buyer |-> ft, new_construction |-> nc,
            ret |-> calc_stress_test_payment(p, rate, ft, nc)]
      [] fn = "REGIONS" ->
           [fn |-> fn, key |-> key, ret |-> RegionLookup(v, key)]

\* A call is made when no result is pending; the widgets are not involved
Idle ==
    /\ call = NoCall
    /\ UNCHANGED <<variant, widgets, out>>

Call_lognorm_cdf ==
    /\ Idle
    /\ \E x \in CoreIncomes :
        call' = CoreResult(variant, "lognorm_cdf", x, 0, 0, 0, FALSE, FALSE, "")

Call_calc_affordable ==
    /\ Idle
    /\ variant \in SimpleVariants
    /\ \E p \in CorePrices, d \in CoreDownPcts, rate \in CoreRates :
        call' = CoreResult(variant, "calc_affordable", 0, p, d, rate, FALSE, FALSE, "")

Call_calculate_down_payment ==
    /\ Idle
    /\ variant \in StressVariants
    /\ \E p \in CorePrices :
        call' = CoreResult(variant, "calculate_down_payment", 0, p, 0, 0, FALSE, FALSE, "")

Call_calc_stress_test_payment ==
    /\ Idle
    /\ variant \in StressVariants
    /\ \E p \in CorePrices, rate \in CoreRates, ft \in BOOLEAN, nc \in BOOLEAN :
        call' = CoreResult(variant, "calc_stress_test_payment", 0, p, 0, rate, ft, nc, "")

Call_REGIONS ==
    /\ Idle
    /\ \E key \in CoreRegionKeys :
        call' = CoreResult(variant, "REGIONS", 0, 0, 0, 0, FALSE, FALSE, key)

\* The caller takes the result; the functions keep nothing between calls
Return ==
    /\ call # NoCall
    /\ call' = NoCall
    /\ UNCHANGED <<variant, widgets, out>>

CoreNext ==
    \/ Call_lognorm_cdf
    \/ Call_calc_affordable
    \/ Call_calculate_down_payment
    \/ Call_calc_stress_test_payment
    \/ Call_REGIONS
    \/ Return

CoreSpec == Init /\ [][CoreNext]_vars

\* ------------------------------------------------------------------------
\* Properties
\* ------------------------------------------------------------------------
QualificationCalls == {"calc_affordable", "calc_stress_test_payment"}

\* C1: of two valid prices qualified under the same contract rate, buyer
\* flags and regime, the higher price never needs the lower income.  The two
\* columns of a dual-property run are two such qualifications.
C1_IncomeMonotoneInPrice ==
    variant \in DualVariants =>
        \A i, j \in DOMAIN out.props :
            <<price1, price2>>[i] < <<price1, price2>>[j]
                => out.props[i].income_single <= out.props[j].income_single

\* C2: the tiered down payment does not jump at a tier boundary (one cent
\* above 500,000 or 1,500,000 it is within a cent of the value at the
\* boundary), and a further 100,000 of price costs no less down payment in a
\* higher tier than in a lower one.
C2_DownPaymentNoJump ==
    (call.fn = "calculate_down_payment" /\ call.price \in {TIER1 + 1, TIER2 + 1})
        => /\ call.ret - calculate_down_payment(call.price - 1) \in 0..1
           /\ LET slope(p) == calculate_down_payment(p + Dollars(100000))
                                  - calculate_down_payment(p)
              IN  /\ slope(Dollars(200000)) <= slope(Dollars(700000))
                  /\ slope(Dollars(700000)) <= slope(Dollars(2000000))

\* C3: a qualification whose monthly rate is exactly 0 raises nothing and
\* its monthly payment is principal / n_payments.
C3_ZeroRatePayment ==
    (call.fn \in QualificationCalls /\ call.price > 0 /\ call.ret.monthly_rate = 0)
        => /\ call.ret.error = "none"
           /\ call.ret.monthly_payment = call.ret.loan \div call.ret.n_payments

\* C4: in a dual-property run, prices more than 50,000 apart give exactly
\* one winner and the winner has strictly more qualified buyers than the
\* other property; prices less than 50,000 apart give no winner.
C4_WinnerHasMoreBuyers ==
    variant \in DualVariants =>
        /\ Abs(price1 - price2) > MATERIALITY =>
              \/ /\ out.winner = "Property 1"
                 /\ out.props[1].people > out.props[2].people
              \/ /\ out.winner = "Property 2"
                 /\ out.props[2].people > out.props[1].people
        /\ Abs(price1 - price2) < MATERIALITY => out.winner = "none"

\* C5: a price <= 0 and a region key outside the catalog are refused with a
\* validation error naming the input; no function hands back a down
\* payment or a required income for them.
C5_InvalidInputRejected ==
    /\ (call.fn \in QualificationCalls /\ call.price <= 0)
           => call.ret.error \in {"ValueError", "KeyError"}
    /\ (call.fn = "calculate_down_payment" /\ call.price <= 0)
           => call.ret \notin Int
    /\ (call.fn = "REGIONS" /\ call.key \notin RegionNames)
           => call.ret.error \in {"ValueError", "KeyError"}

\* C6: a qualification of a price > 0, in either regime, has down payment
\* >= 0, down payment <= price, loan = price - down payment, loan >= 0 and,
\* when it returns, required income >= 0.
C6_MoneyInvariants ==
    (call.fn \in QualificationCalls /\ call.price > 0)
        => /\ call.ret.down_payment >= 0
           /\ call.ret.down_payment <= call.price
           /\ call.ret.loan = call.price - call.ret.down_payment
           /\ call.ret.loan >= 0
           /\ call.ret.error = "none" => call.ret.income_needed >= 0

\* A stress-tested qualification of a middle-tier price has returned
C6_Witness ==
    /\ call.fn = "calc_stress_test_payment"
    /\ call.price = Dollars(800000)
    /\ call.ret.error = "none"
    /\ call.ret.down_payment = Dollars(55000)
    /\ call.ret.loan = Dollars(745000)
    /\ call.ret.income_needed > 0

\* C7: the stress rate returned by calc_stress_test_payment is
\* max(0.0525, contract_rate + 0.02) whatever the price and the buyer flags:
\* 0.045 gives 0.065 and 0.01 gives 0.0525.
C7_StressRate ==
    call.fn = "calc_stress_test_payment"
        => /\ call.ret.stress_rate = Max(52500, call.rate + 20000)
           /\ call.rate = 45000 => call.ret.stress_rate = 65000
           /\ call.rate = 10000 => call.ret.stress_rate = 52500

\* The floor binds: a contract rate of 0.01 has been stress-tested at 0.0525
C7_Witness ==
    /\ call.fn = "calc_stress_test_payment"
    /\ call.rate = 10000
    /\ call.ret.stress_rate = 52500

\* C8: calc_stress_test_payment amortizes over 30 years when first-time
\* buyer or new construction is set and over 25 years otherwise, whatever
\* the price and the rate, and the annuity runs over 12 payments a year.
C8_Amortization ==
    call.fn = "calc_stress_test_payment"
        => /\ call.ret.amortization_years
                 = IF call.first_time_buyer \/ call.new_construction THEN 30 ELSE 25
           /\ call.ret.amortization_years \in {25, 30}
           /\ call.ret.n_payments = call.ret.amortization_years * 12

\* A new build bought by a repeat buyer has been amortized over 30 years
C8_Witness ==
    /\ call.fn = "calc_stress_test_payment"
    /\ ~call.first_time_buyer
    /\ call.new_construction
    /\ call.ret.amortization_years = 30
    /\ call.ret.n_payments = 360

\* C9: in every variant lognorm_cdf(x) is exactly 0 for x <= 0, and is a
\* number.
C9_CdfZeroBelowZero ==
    (call.fn = "lognorm_cdf" /\ call.x <= 0)
        => /\ ~call.ret.nan
           /\ call.ret.v = 0

\* C10: in every variant each displayed property has a survival probability
\* in [0, 1], a percentage in 0..100 and a buyer count >= 0, and of two
\* properties the one needing the higher income has no higher survival.
C10_SurvivalBounded ==
    /\ \A i \in DOMAIN out.props :
          out.props[i].income_needed > 0
              => /\ out.props[i].prob \in 0..ONE
                 /\ out.props[i].pct \in 0..(HUNDRED * ONE)
                 /\ out.props[i].people >= 0
    /\ \A i, j \in DOMAIN out.props :
          out.props[i].income_needed < out.props[j].income_needed
              => out.props[j].prob <= out.props[i].prob

\* The simple-regime qualification as variant v defines it
CalcAffordableOf(v, price, down_pct, rate) ==
    IF v = "app" THEN calc_affordable_app(price, down_pct, rate)
    ELSE calc_affordable(price, down_pct, rate)

\* The scenario of C11: price 800,000 at 4.5% with a 5% down-rate
C11_Scenario ==
    /\ call.fn = "calc_affordable"
    /\ call.price = Dollars(800000)
    /\ call.rate = 45000
    /\ call.down_pct = 50000

\* C11 as stated: in that scenario the down payment is 40,000, the loan is
\* 760,000, and the required income is strictly greater than the one for
\* the same price and rate at a 3% down-rate.
C11_IncomeAbove3Percent ==
    C11_Scenario
        => /\ call.ret.down_payment = Dollars(40000)
           /\ call.ret.loan = Dollars(760000)
           /\ call.ret.income_needed
                  > CalcAffordableOf(variant, call.price, 30000, call.rate).income_needed

\* C11 as amended: in that scenario the down payment is 40,000, the loan is
\* 760,000, and the required income is strictly less than the one for the
\* same price and rate at a 3% down-rate, whose loan is 776,000.
C11_IncomeBelow3Percent ==
    C11_Scenario
        => /\ call.ret.error = "none"
           /\ call.ret.down_payment = Dollars(40000)
           /\ call.ret.loan = Dollars(760000)
           /\ CalcAffordableOf(variant, call.price, 30000, call.rate).loan = Dollars(776000)
           /\ call.ret.income_needed
                  < CalcAffordableOf(variant, call.price, 30000, call.rate).income_needed

\* The scenario has been qualified in app.py
C11_Witness ==
    /\ C11_Scenario
    /\ variant = "app"
    /\ call.ret.error = "none"
    /\ call.ret.loan = Dollars(760000)
    /\ call.ret.income_needed > Dollars(181000)
    /\ call.ret.income_needed < Dollars(181100)

\* The single-region pipeline of the running variant for price p with
\* region r selected
PipelineOf(p, r) == ColumnOf[variant, p, r, household_type, first_time, new_constr]

\* C12: every cell of a region's row of the comparison table is what the
\* single-region pipeline yields with that region selected: required income,
\* buyer count and percentage in the one-property variants, the buyer count
\* of each price in the dual-property variants.
C12_RowsFromOwnRegion ==
    \A r \in RegionNames :
        IF variant \in DualVariants
        THEN /\ out.table[r].p1 = PipelineOf(price1, r).people
             /\ out.table[r].p2 = PipelineOf(price2, r).people
        ELSE /\ out.table[r].min_income = PipelineOf(price1, r).income_needed
             /\ out.table[r].can_afford = PipelineOf(price1, r).people
             /\ out.table[r].pct_pop = PipelineOf(price1, r).pct

\* down / price to 20 binary places, by long division: the effective
\* down-payment rate of a price > 0 whose down payment is within 0..price
RateBits == 20

BinaryDigits[r \in Int, b \in Int, k \in Int] ==
    IF k = 0 THEN 0
    ELSE ((2 * r) \div b) * Pow2[k - 1] + BinaryDigits[(2 * r) % b, b, k - 1]

EffectiveRate(price) ==
    (calculate_down_payment(price) \div price) * Pow2[RateBits]
        + BinaryDigits[calculate_down_payment(price) % price, price, RateBits]

\* Prices in whole dollars, as st.number_input supplies them: their down
\* payments are whole cents, so the rates compared are those of the code
WholeDollarPrices == {q \in CorePrices : q > 0 /\ q % CENTS = 0}

\* C13: the effective down-payment rate of the tiered rule never falls as
\* the price rises: it is 5% up to 500,000, above 5% from there to
\* 1,500,000 and a flat 20% above 1,500,000.
C13_EffectiveRateMonotone ==
    (call.fn = "calculate_down_payment" /\ call.price \in WholeDollarPrices)
        => /\ \A q \in WholeDollarPrices :
                 q < call.price => EffectiveRate(q) <= EffectiveRate(call.price)
           /\ call.price <= TIER1 => call.ret = FMul[call.price, 50000]
           /\ (TIER1 < call.price /\ call.price <= TIER2)
                 => /\ call.ret > FMul[call.price, 50000]
                    /\ call.ret < FMul[call.price, 200000]
           /\ call.price > TIER2 => call.ret = FMul[call.price, 200000]

\* A price in the top tier has been rated above the top of the middle tier,
\* and the top of the middle tier above the first tier
C13_Witness ==
    /\ call.fn = "calculate_down_payment"
    /\ call.price = TIER2 + CENTS
    /\ call.ret = Dollars(300000) + 20
    /\ EffectiveRate(TIER1) < EffectiveRate(TIER2)
    /\ EffectiveRate(TIER2) < EffectiveRate(call.price)

\* The population of the selected region
SelectedPop == REGIONS[region].pop

\* C14: in every variant with a household selector a single earner's
\* required income is used as it is and the buyer count is survival x
\* population x 0.40; a couple's required income is multiplied by 0.75 before
\* the survival lookup and the count is survival x population x 0.60; the
\* percentage is survival x 100 for both.
C14_HouseholdAdjustment ==
    variant \in HouseholdVariants =>
        \A i \in DOMAIN out.props :
            LET c == out.props[i]
            IN  /\ c.income_needed = IF household_type = "single" THEN c.income_single
                                     ELSE FMul[c.income_single, 750000]
                /\ c.prob = Max(0, ONE - lognorm_cdf(c.income_needed))
                /\ c.people = FMul[FMul[SelectedPop, c.prob],
                                   IF household_type = "single" THEN 400000 ELSE 600000]
                /\ c.pct = c.prob * 100

\* C15: in a dual-property run the dearer property never has more qualified
\* buyers than the cheaper one, so a reported winner is never the dearer
\* property, for every pair of prices in 100,000..3,000,000.
C15_CountMonotoneInPrice ==
    variant \in DualVariants =>
        /\ price1 < price2 => /\ out.props[2].people <= out.props[1].people
                              /\ out.winner # "Property 2"
        /\ price2 < price1 => /\ out.props[1].people <= out.props[2].people
                              /\ out.winner # "Property 1"

\* C16: in every dual-property variant two prices exactly 50,000 apart give
\* no winner, loser or tie; whenever one of these is reported the prices are
\* more than 50,000 apart.
C16_NoWinnerAtThreshold ==
    variant \in DualVariants =>
        /\ Abs(price1 - price2) = Dollars(50000) => out.winner = "none"
        /\ out.winner # "none" => Abs(price1 - price2) > Dollars(50000)

\* app7.py has compared two properties exactly 50,000 apart whose buyer
\* counts differ, and has named no winner
C16_Witness ==
    /\ variant = "app7"
    /\ price1 = Dollars(1500000)
    /\ price2 = Dollars(1550000)
    /\ out.props[1].people # out.props[2].people
    /\ out.buyer_difference # 0
    /\ out.winner = "none"

====
